---- MODULE Spec2Model ----
(***************************************************************************)
(* Model of the TrustScribe job queue (src/main.py, class Api) and of the  *)
(* diarization / assembly pipeline (src/transcriber.py).                   *)
(*                                                                         *)
(* Spec       : the threads of Api: callers of startTranscription, a       *)
(*              poller of getAllProgress and the _process_queue workers.   *)
(***************************************************************************)
EXTENDS Integers, Sequences, FiniteSets, TLC

(***************************************************************************)
(* Bounds of the model.                                                    *)
(***************************************************************************)
\* number of jobs appended to processing_queue over a run
MaxJobs == 2

Paths == {"a.wav", "b.mp3"}

\* the threads that call startTranscription, one call each
Callers == {1, 2}
\* a worker thread is named after the call that started it
Workers == Callers

RECURSIVE SeqsUpTo(_, _)
SeqsUpTo(S, n) ==
    IF n = 0 THEN {<<>>}
    ELSE LET shorter == SeqsUpTo(S, n - 1)
         IN  shorter \cup {Append(s, x) : s \in {t \in shorter : Len(t) = n - 1}, x \in S}

\* the file_paths lists a call is made with
FileLists == SeqsUpTo(Paths, MaxJobs)

(***************************************************************************)
(* State of Api (main.py:33-38) and of its threads.                        *)
(***************************************************************************)
VARIABLES
    active_jobs,        \* file_path -> entry, Absent when the key is missing
    processing_queue,   \* sequence of (job, file_path)
    is_processing,      \* the worker flag
    queue_lock,         \* holder of _queue_lock
    jobs_lock,          \* holder of _jobs_lock
    cpc, cargs,         \* startTranscription callers: position, file_paths
    wpc, wjob, wstage, wres,  \* workers: position, job in hand, stage, outcome
    stop_event, progress_thread,  \* transcribe: its Event, its estimate_progress thread
    rpc, rresult,       \* the getAllProgress poller: position, returned dict
    appended, dequeued, \* history: jobs in append order, jobs in pop order
    disk,               \* history: the results save_result has written
    fin, fst,           \* _format_result: its argument, its locals and result
    kin, kst,           \* _cluster: its inputs, its locals and result
    din, dst,           \* diarize: its segments, its locals and result
    tres                \* the TranscriptionResult of transcribe and the job's outcome

\* the locals of transcribe that its helper thread shares
tvars == <<stop_event, progress_thread>>
qvars == <<active_jobs, processing_queue, is_processing, queue_lock, jobs_lock,
           cpc, cargs, wpc, wjob, wstage, wres, tvars, rpc, rresult, appended, dequeued, disk>>
\* the variables of the pipeline functions, untouched by the threads of Api
pvars == <<fin, fst, kin, kst, din, dst, tres>>
vars == <<qvars, pvars>>

Free == <<"free", 0>>
CallerId(c) == <<"caller", c>>
WorkerId(w) == <<"worker", w>>
ReaderId == <<"reader", 0>>

Absent == [progress |-> -1, status |-> "absent", message |-> ""]
NoJob == [id |-> <<0, 0>>, path |-> ""]
NoResult == << >>

\* threading.Lock: acquire succeeds only when nobody holds it
LockFree(l) == l = Free

(***************************************************************************)
(* The progress_callback calls of TranscriptionEngine.transcribe, in       *)
(* order, as (progress * 100, message, exception the step after the call   *)
(* may raise; "" when that step does not raise, the calls that can come    *)
(* next).  The calls of diarize and _cluster come through                  *)
(* diarization_wrapper; the call made per embedded segment and the call    *)
(* made per candidate cluster count are each written once, with the value  *)
(* of the middle of their range.                                           *)
(***************************************************************************)
\* diarization_wrapper (transcriber.py:502-504): 0.65 + progress * 0.3, with
\* progress in hundredths
DiarizationWrapper(progress) == 65 + (progress * 3) \div 10

Stages == <<
    [progress |-> 5,   message |-> "Checking model availability...", raises |-> "", then |-> {2}],
    [progress |-> 15,  message |-> "Preparing audio file...", raises |-> "Unsupported file format", then |-> {3}],
    [progress |-> 16,  message |-> "Converting audio to WAV format...", raises |-> "Failed to convert audio file", then |-> {4}],
    [progress |-> 20,  message |-> "Starting transcription...", raises |-> "ASR failed", then |-> {5}],
    [progress |-> 65,  message |-> "Transcription complete. Starting speaker diarization...", raises |-> "Diarization failed", then |-> {6, 13}],
    [progress |-> DiarizationWrapper(0),   message |-> "Extracting speaker embeddings...", raises |-> "", then |-> {7, 13}],
    [progress |-> DiarizationWrapper(25),  message |-> "Processing segment i/n...", raises |-> "", then |-> {8}],
    [progress |-> DiarizationWrapper(50),  message |-> "Clustering speakers...", raises |-> "", then |-> {9, 11}],
    [progress |-> DiarizationWrapper(65),  message |-> "Testing k speakers...", raises |-> "Diarization failed", then |-> {10}],
    [progress |-> DiarizationWrapper(80),  message |-> "Using n speaker(s)...", raises |-> "", then |-> {11}],
    [progress |-> DiarizationWrapper(90),  message |-> "Assigning speakers...", raises |-> "", then |-> {12}],
    [progress |-> DiarizationWrapper(100), message |-> "Speaker diarization complete", raises |-> "", then |-> {13}],
    [progress |-> 95,  message |-> "Combining results...", raises |-> "", then |-> {14}],
    [progress |-> 98,  message |-> "Finalizing...", raises |-> "", then |-> {15}],
    [progress |-> 100, message |-> "Complete!", raises |-> "", then |-> {}] >>

SaveError == "Cannot save transcription"

\* Api.__init__
ApiInit ==
    /\ active_jobs = [p \in Paths |-> Absent]
    /\ processing_queue = <<>>
    /\ is_processing = FALSE
    /\ queue_lock = Free
    /\ jobs_lock = Free
    /\ cpc = [c \in Callers |-> "idle"]
    /\ cargs = [c \in Callers |-> <<>>]
    /\ wpc = [w \in Workers |-> "unborn"]
    /\ wjob = [w \in Workers |-> NoJob]
    /\ wstage = [w \in Workers |-> 0]
    /\ wres = [w \in Workers |-> ""]
    /\ stop_event = [w \in Workers |-> FALSE]
    /\ progress_thread = [w \in Workers |-> "none"]
    /\ rpc = "idle"
    /\ rresult = NoResult
    /\ appended = <<>>
    /\ dequeued = <<>>
    /\ disk = {}

\* no call of _format_result or _cluster is under way
FormatIdle ==
    /\ fin = <<>>
    /\ fst = [pc |-> "idle"]

ClusterIdle ==
    /\ kin = [n |-> 0]
    /\ kst = [pc |-> "idle"]

DiarizeIdle ==
    /\ din = <<>>
    /\ dst = [pc |-> "idle"]
    /\ tres = [pc |-> "idle"]

Init == ApiInit /\ FormatIdle /\ ClusterIdle /\ DiarizeIdle

(***************************************************************************)
(* Api.startTranscription (main.py:210-264).                               *)
(***************************************************************************)
\* the file_paths of the calls that have not reached their for loop yet
RECURSIVE PendingArgs(_)
PendingArgs(cs) ==
    IF cs = {} THEN <<>>
    ELSE LET c == CHOOSE x \in cs : TRUE IN cargs[c] \o PendingArgs(cs \ {c})

\* the call is made with some file_paths list
Call(c) ==
    /\ cpc[c] = "idle"
    /\ \E files \in FileLists :
          /\ Len(appended) + Len(PendingArgs(Callers)) + Len(files) <= MaxJobs
          /\ cargs' = [cargs EXCEPT ![c] = files]
    /\ cpc' = [cpc EXCEPT ![c] = "want_queue"]
    /\ UNCHANGED <<active_jobs, processing_queue, is_processing, queue_lock, jobs_lock,
                   wpc, wjob, wstage, wres, rpc, rresult, appended, dequeued, disk>>
    /\ UNCHANGED <<tvars, pvars>>

\* with self._queue_lock:
EnqueueLockQueue(c) ==
    /\ cpc[c] = "want_queue"
    /\ LockFree(queue_lock)
    /\ queue_lock' = CallerId(c)
    /\ cpc' = [cpc EXCEPT ![c] = "want_jobs"]
    /\ UNCHANGED <<active_jobs, processing_queue, is_processing, jobs_lock, cargs,
                   wpc, wjob, wstage, wres, rpc, rresult, appended, dequeued, disk>>
    /\ UNCHANGED <<tvars, pvars>>

\* with self._jobs_lock:
EnqueueLockJobs(c) ==
    /\ cpc[c] = "want_jobs"
    /\ LockFree(jobs_lock)
    /\ jobs_lock' = CallerId(c)
    /\ cpc' = [cpc EXCEPT ![c] = "body"]
    /\ UNCHANGED <<active_jobs, processing_queue, is_processing, queue_lock, cargs,
                   wpc, wjob, wstage, wres, rpc, rresult, appended, dequeued, disk>>
    /\ UNCHANGED <<tvars, pvars>>

\* the entry startTranscription creates for an untracked path
QueuedEntry == [progress |-> 0, status |-> "pending", message |-> "Queued"]

\* mutant: every path of the argument gets a fresh entry, tracked or not
InitJobsResets(jobs, files) ==
    [p \in Paths |->
        IF \E i \in 1..Len(files) : files[i] = p THEN QueuedEntry ELSE jobs[p]]

\* active_jobs after the for loop over file_paths
InitJobs(jobs, files) ==
    [p \in Paths |->
        IF (\E i \in 1..Len(files) : files[i] = p) /\ jobs[p] = Absent
        THEN QueuedEntry
        ELSE jobs[p]]

\* the (job, file_path) pairs the for loop appends, in order
NewJobs(c, files) == [i \in 1..Len(files) |-> [id |-> <<c, i>>, path |-> files[i]]]

RECURSIVE JobIds(_)
JobIds(q) == IF q = <<>> THEN <<>> ELSE <<Head(q).id>> \o JobIds(Tail(q))

\* the for loop, then both with-blocks release their locks
EnqueueBody(c) ==
    /\ cpc[c] = "body"
    /\ active_jobs' = InitJobs(active_jobs, cargs[c])
    /\ processing_queue' = processing_queue \o NewJobs(c, cargs[c])
    /\ appended' = appended \o JobIds(NewJobs(c, cargs[c]))
    /\ jobs_lock' = Free
    /\ queue_lock' = Free
    /\ cpc' = [cpc EXCEPT ![c] = "check"]
    /\ cargs' = [cargs EXCEPT ![c] = <<>>]
    /\ UNCHANGED <<is_processing, wpc, wjob, wstage, wres, rpc, rresult, dequeued, disk>>
    /\ UNCHANGED <<tvars, pvars>>

\* the condition under which startTranscription starts a worker thread
ShouldStartWorker == ~is_processing

\* if not self.is_processing: threading.Thread(target=self._process_queue).start()
EnqueueCheckStart(c) ==
    /\ cpc[c] = "check"
    /\ wpc' = IF ShouldStartWorker THEN [wpc EXCEPT ![c] = "start"] ELSE wpc
    /\ cpc' = [cpc EXCEPT ![c] = "done"]
    /\ UNCHANGED <<active_jobs, processing_queue, is_processing, queue_lock, jobs_lock,
                   cargs, wjob, wstage, wres, rpc, rresult, appended, dequeued, disk>>
    /\ UNCHANGED <<tvars, pvars>>

(***************************************************************************)
(* Api._process_queue (main.py:266-277).                                   *)
(***************************************************************************)
\* self.is_processing = True, first statement of the new thread
WorkerBegin(w) ==
    /\ wpc[w] = "start"
    /\ is_processing' = TRUE
    /\ wpc' = [wpc EXCEPT ![w] = "loop"]
    /\ UNCHANGED <<active_jobs, processing_queue, queue_lock, jobs_lock, cpc, cargs,
                   wjob, wstage, wres, rpc, rresult, appended, dequeued, disk>>
    /\ UNCHANGED <<tvars, pvars>>

\* mutant: the popped element stays in the list
AfterPopKeeps(q) == q

\* processing_queue.pop(0): the element returned and the list left behind
Popped(q) == Head(q)
AfterPop(q) == Tail(q)

\* mutant: the worker leaves the flag as it is when it finds the queue empty
FlagStaysWhenQueueEmpty == is_processing

\* is_processing as the worker leaves it when it finds the queue empty
\* (main.py:272)
FlagWhenQueueEmpty == FALSE

\* one pass of "with self._queue_lock:": the lock is taken, the queue is
\* tested and popped, and the lock is released before anything else runs
WorkerTake(w) ==
    /\ wpc[w] = "loop"
    /\ LockFree(queue_lock)
    /\ IF processing_queue = <<>>
       THEN /\ is_processing' = FlagWhenQueueEmpty
            /\ wpc' = [wpc EXCEPT ![w] = "exited"]
            /\ UNCHANGED <<processing_queue, wjob, dequeued>>
       ELSE /\ wjob' = [wjob EXCEPT ![w] = Popped(processing_queue)]
            /\ processing_queue' = AfterPop(processing_queue)
            /\ dequeued' = Append(dequeued, Popped(processing_queue).id)
            /\ wpc' = [wpc EXCEPT ![w] = "enter"]
            /\ UNCHANGED is_processing
    /\ UNCHANGED <<active_jobs, queue_lock, jobs_lock, cpc, cargs,
                   wstage, wres, rpc, rresult, appended, disk>>
    /\ UNCHANGED <<tvars, pvars>>

(***************************************************************************)
(* Api._transcribe_file (main.py:279-336).                                 *)
(***************************************************************************)
EngineError == "Engine unavailable"

\* main.py:283-291, then _get_engine() (main.py:305), which may raise
TranscribeEnter(w) ==
    /\ wpc[w] = "enter"
    /\ LockFree(jobs_lock)
    /\ active_jobs' =
          [active_jobs EXCEPT ![wjob[w].path] =
              IF @ = Absent
              THEN [progress |-> 0, status |-> "processing", message |-> "Starting..."]
              ELSE [@ EXCEPT !.status = "processing"]]
    /\ \/ /\ wpc' = [wpc EXCEPT ![w] = "run"]
          /\ wstage' = [wstage EXCEPT ![w] = 1]
          /\ UNCHANGED wres
       \/ /\ wpc' = [wpc EXCEPT ![w] = "except"]
          /\ wres' = [wres EXCEPT ![w] = EngineError]
          /\ UNCHANGED wstage
    /\ UNCHANGED <<processing_queue, is_processing, queue_lock, jobs_lock, cpc, cargs,
                   wjob, rpc, rresult, appended, dequeued, disk>>
    /\ UNCHANGED <<tvars, pvars>>

\* progress_callback, main.py:296-298: lock, then the progress field
CallbackProgress(w) ==
    /\ wpc[w] = "run"
    /\ LockFree(jobs_lock)
    /\ jobs_lock' = WorkerId(w)
    /\ active_jobs' =
          [active_jobs EXCEPT ![wjob[w].path] =
              IF @ = Absent THEN @ ELSE [@ EXCEPT !.progress = Stages[wstage[w]].progress]]
    /\ wpc' = [wpc EXCEPT ![w] = "cb_message"]
    /\ UNCHANGED <<processing_queue, is_processing, queue_lock, cpc, cargs,
                   wjob, wstage, wres, rpc, rresult, appended, dequeued, disk>>
    /\ UNCHANGED <<tvars, pvars>>

\* the exception of the ASR pipeline call (transcriber.py:483-489)
AsrError == "ASR failed"

\* progress_callback, main.py:299: the message field, then the lock is
\* released; transcribe then runs up to its next callback, raises
\* (transcriber.py:525-530 turns that into result.error) or returns.
\* After "Starting transcription..." it starts the estimate_progress thread
\* (transcriber.py:467-480) and calls the ASR pipeline
CallbackMessage(w) ==
    /\ wpc[w] = "cb_message"
    /\ active_jobs' =
          [active_jobs EXCEPT ![wjob[w].path] =
              IF @ = Absent THEN @ ELSE [@ EXCEPT !.message = Stages[wstage[w]].message]]
    /\ jobs_lock' = Free
    /\ \/ /\ Stages[wstage[w]].raises # AsrError
          /\ \E next \in Stages[wstage[w]].then : wstage' = [wstage EXCEPT ![w] = next]
          /\ wpc' = [wpc EXCEPT ![w] = "run"]
          /\ UNCHANGED <<wres, tvars>>
       \/ /\ wstage[w] = Len(Stages)
          /\ wstage' = [wstage EXCEPT ![w] = 0]
          /\ wpc' = [wpc EXCEPT ![w] = "final"]
          /\ UNCHANGED <<wres, tvars>>
       \/ /\ Stages[wstage[w]].raises \notin {"", AsrError}
          /\ wstage' = [wstage EXCEPT ![w] = 0]
          /\ wres' = [wres EXCEPT ![w] = Stages[wstage[w]].raises]
          /\ wpc' = [wpc EXCEPT ![w] = "final"]
          /\ UNCHANGED tvars
       \/ /\ Stages[wstage[w]].raises = AsrError
          /\ stop_event' = [stop_event EXCEPT ![w] = FALSE]
          /\ progress_thread' = [progress_thread EXCEPT ![w] = "running"]
          /\ wpc' = [wpc EXCEPT ![w] = "asr"]
          /\ UNCHANGED <<wres, wstage>>
    /\ UNCHANGED <<processing_queue, is_processing, queue_lock, cpc, cargs,
                   wjob, rpc, rresult, appended, dequeued, disk>>
    /\ UNCHANGED pvars

\* mutant: stop_event.set() follows the pipeline call without try/finally,
\* so it is skipped when the call raises
StopEventSetOnlyOnReturn(raised) == ~raised

\* whether stop_event is set when the try block is left (transcriber.py:490-491)
StopEventSet(raised) == TRUE

\* transcriber.py:482-491: create_pipeline and pipe(...) return or raise,
\* then the finally block sets stop_event
AsrPipe(w) ==
    /\ wpc[w] = "asr"
    /\ \E raised \in BOOLEAN :
          /\ wres' = [wres EXCEPT ![w] = IF raised THEN AsrError ELSE ""]
          /\ stop_event' = [stop_event EXCEPT ![w] = StopEventSet(raised)]
    /\ wpc' = [wpc EXCEPT ![w] = "join"]
    /\ UNCHANGED <<active_jobs, processing_queue, is_processing, queue_lock, jobs_lock,
                   cpc, cargs, wjob, wstage, progress_thread, rpc, rresult, appended, dequeued, disk>>
    /\ UNCHANGED pvars

\* transcriber.py:470-477, the thread of estimate_progress: its while loop
\* ends when it finds stop_event set (the value it estimates is read by
\* nobody)
EstimateProgress(w) ==
    /\ progress_thread[w] = "running"
    /\ stop_event[w]
    /\ progress_thread' = [progress_thread EXCEPT ![w] = "finished"]
    /\ UNCHANGED <<active_jobs, processing_queue, is_processing, queue_lock, jobs_lock,
                   cpc, cargs, wpc, wjob, wstage, wres, stop_event, rpc, rresult,
                   appended, dequeued, disk>>
    /\ UNCHANGED pvars

\* transcriber.py:492: progress_thread.join() returns once the thread has
\* ended; the exception of the try block, if any, goes on to the handler
AsrJoin(w) ==
    /\ wpc[w] = "join"
    /\ progress_thread[w] = "finished"
    /\ progress_thread' = [progress_thread EXCEPT ![w] = "none"]
    /\ IF wres[w] # ""
       THEN /\ wstage' = [wstage EXCEPT ![w] = 0]
            /\ wpc' = [wpc EXCEPT ![w] = "final"]
       ELSE /\ \E next \in Stages[wstage[w]].then : wstage' = [wstage EXCEPT ![w] = next]
            /\ wpc' = [wpc EXCEPT ![w] = "run"]
    /\ UNCHANGED <<active_jobs, processing_queue, is_processing, queue_lock, jobs_lock,
                   cpc, cargs, wjob, wres, stop_event, rpc, rresult, appended, dequeued, disk>>
    /\ UNCHANGED pvars

\* mutant: the final update takes every result for a good one
ResultErrorIgnored(error) == FALSE

\* if result.error: (main.py:311)
ResultHasError(error) == error # ""

\* main.py:309-313: the lock of the final update; with result.error set the
\* status field is written first
FinalLock(w) ==
    /\ wpc[w] = "final"
    /\ LockFree(jobs_lock)
    /\ jobs_lock' = WorkerId(w)
    /\ IF ResultHasError(wres[w])
       THEN /\ active_jobs' =
                  [active_jobs EXCEPT ![wjob[w].path] =
                      IF @ = Absent THEN @ ELSE [@ EXCEPT !.status = "error"]]
            /\ wpc' = [wpc EXCEPT ![w] = "error_message"]
       ELSE /\ wpc' = [wpc EXCEPT ![w] = "save"]
            /\ UNCHANGED active_jobs
    /\ UNCHANGED <<processing_queue, is_processing, queue_lock, cpc, cargs,
                   wjob, wstage, wres, rpc, rresult, appended, dequeued, disk>>
    /\ UNCHANGED <<tvars, pvars>>

\* the job was appended / popped
InSeq(id, ids) == \E i \in 1..Len(ids) : ids[i] = id

\* mutant: a failed job ends the worker thread instead of the loop going on
BackToLoopStopsOnError(w) ==
    /\ wpc' = [wpc EXCEPT ![w] = IF wres[w] # "" THEN "exited" ELSE "loop"]
    /\ wjob' = [wjob EXCEPT ![w] = NoJob]
    /\ wres' = [wres EXCEPT ![w] = ""]

\* what the worker thread holds when it goes back to the while loop
BackToLoop(w) ==
    /\ wpc' = [wpc EXCEPT ![w] = "loop"]
    /\ wjob' = [wjob EXCEPT ![w] = NoJob]
    /\ wres' = [wres EXCEPT ![w] = ""]

\* main.py:313: message = result.error, end of the with-block
FinalErrorMessage(w) ==
    /\ wpc[w] = "error_message"
    /\ active_jobs' =
          [active_jobs EXCEPT ![wjob[w].path] =
              IF @ = Absent THEN @ ELSE [@ EXCEPT !.message = wres[w]]]
    /\ jobs_lock' = Free
    /\ BackToLoop(w)
    /\ UNCHANGED <<processing_queue, is_processing, queue_lock, cpc, cargs,
                   wstage, rpc, rresult, appended, dequeued, disk>>
    /\ UNCHANGED <<tvars, pvars>>

\* transcriber.py:621-622: save_result raises for a result with an error
SaveRefuses(error) == error # ""

\* mutant: the lock stays with the worker when save_result raises
LockKeptOnRaise(w) == WorkerId(w)

\* _jobs_lock after an exception has left the with-block (main.py:309)
LockOnRaise(w) == Free

\* main.py:316-318: engine.save_result(result) runs with _jobs_lock held; it
\* writes the result and returns, and status is set, or it raises and the
\* with-block is left
SaveResult(w) ==
    /\ wpc[w] = "save"
    /\ \/ /\ ~SaveRefuses(wres[w])
          /\ disk' = disk \cup {[id |-> wjob[w].id, error |-> wres[w]]}
          /\ active_jobs' =
                [active_jobs EXCEPT ![wjob[w].path] =
                    IF @ = Absent THEN @ ELSE [@ EXCEPT !.status = "completed"]]
          /\ wpc' = [wpc EXCEPT ![w] = "done_progress"]
          /\ UNCHANGED <<jobs_lock, wres>>
       \/ /\ jobs_lock' = LockOnRaise(w)
          /\ wres' = [wres EXCEPT ![w] = SaveError]
          /\ wpc' = [wpc EXCEPT ![w] = "except"]
          /\ UNCHANGED <<active_jobs, disk>>
    /\ UNCHANGED <<processing_queue, is_processing, queue_lock, cpc, cargs,
                   wjob, wstage, rpc, rresult, appended, dequeued>>
    /\ UNCHANGED <<tvars, pvars>>

\* main.py:319
FinalProgress(w) ==
    /\ wpc[w] = "done_progress"
    /\ active_jobs' =
          [active_jobs EXCEPT ![wjob[w].path] =
              IF @ = Absent THEN @ ELSE [@ EXCEPT !.progress = 100]]
    /\ wpc' = [wpc EXCEPT ![w] = "done_message"]
    /\ UNCHANGED <<processing_queue, is_processing, queue_lock, jobs_lock, cpc, cargs,
                   wjob, wstage, wres, rpc, rresult, appended, dequeued, disk>>
    /\ UNCHANGED <<tvars, pvars>>

\* main.py:320, end of the with-block
FinalMessage(w) ==
    /\ wpc[w] = "done_message"
    /\ active_jobs' =
          [active_jobs EXCEPT ![wjob[w].path] =
              IF @ = Absent THEN @ ELSE [@ EXCEPT !.message = "Complete"]]
    /\ jobs_lock' = Free
    /\ BackToLoop(w)
    /\ UNCHANGED <<processing_queue, is_processing, queue_lock, cpc, cargs,
                   wstage, rpc, rresult, appended, dequeued, disk>>
    /\ UNCHANGED <<tvars, pvars>>

\* main.py:321-332: the except handler takes the lock and writes status
ExceptLock(w) ==
    /\ wpc[w] = "except"
    /\ LockFree(jobs_lock)
    /\ jobs_lock' = WorkerId(w)
    /\ active_jobs' =
          [active_jobs EXCEPT ![wjob[w].path] =
              IF @ = Absent
              THEN [progress |-> 0, status |-> "error", message |-> wres[w]]
              ELSE [@ EXCEPT !.status = "error"]]
    /\ wpc' = [wpc EXCEPT ![w] = "except_message"]
    /\ UNCHANGED <<processing_queue, is_processing, queue_lock, cpc, cargs,
                   wjob, wstage, wres, rpc, rresult, appended, dequeued, disk>>
    /\ UNCHANGED <<tvars, pvars>>

\* main.py:333, end of the with-block
ExceptMessage(w) ==
    /\ wpc[w] = "except_message"
    /\ active_jobs' = [active_jobs EXCEPT ![wjob[w].path].message = wres[w]]
    /\ jobs_lock' = Free
    /\ BackToLoop(w)
    /\ UNCHANGED <<processing_queue, is_processing, queue_lock, cpc, cargs,
                   wstage, rpc, rresult, appended, dequeued, disk>>
    /\ UNCHANGED <<tvars, pvars>>

(***************************************************************************)
(* Api.getAllProgress (main.py:196-208).                                   *)
(***************************************************************************)
ReadCall ==
    /\ rpc = "idle"
    /\ rpc' = "want_jobs"
    /\ UNCHANGED <<active_jobs, processing_queue, is_processing, queue_lock, jobs_lock,
                   cpc, cargs, wpc, wjob, wstage, wres, rresult, appended, dequeued, disk>>
    /\ UNCHANGED <<tvars, pvars>>

\* mutant: getAllProgress reads the table without waiting for the lock
ReaderEntersUnlocked == TRUE

\* the condition under which getAllProgress enters its with-block
ReaderMayEnter == LockFree(jobs_lock)

\* the dict built by the for loop: one entry per key of active_jobs
Snapshot(jobs) ==
    [p \in {q \in Paths : jobs[q] # Absent} |->
        [progress |-> jobs[p].progress, status |-> jobs[p].status, message |-> jobs[p].message]]

\* main.py:198-207: the lock is taken and the for loop builds result
ReadLock ==
    /\ rpc = "want_jobs"
    /\ ReaderMayEnter
    /\ jobs_lock' = ReaderId
    /\ rresult' = Snapshot(active_jobs)
    /\ rpc' = "reading"
    /\ UNCHANGED <<active_jobs, processing_queue, is_processing, queue_lock,
                   cpc, cargs, wpc, wjob, wstage, wres, appended, dequeued, disk>>
    /\ UNCHANGED <<tvars, pvars>>

\* main.py:208: return result leaves the with-block; the dict goes to the
\* caller and is no longer part of the state of Api
ReadReturn ==
    /\ rpc = "reading"
    /\ rresult' = NoResult
    /\ jobs_lock' = Free
    /\ rpc' = "idle"
    /\ UNCHANGED <<active_jobs, processing_queue, is_processing, queue_lock,
                   cpc, cargs, wpc, wjob, wstage, wres, appended, dequeued, disk>>
    /\ UNCHANGED <<tvars, pvars>>

Next ==
    \/ \E c \in Callers : Call(c)
    \/ \E c \in Callers : EnqueueLockQueue(c)
    \/ \E c \in Callers : EnqueueLockJobs(c)
    \/ \E c \in Callers : EnqueueBody(c)
    \/ \E c \in Callers : EnqueueCheckStart(c)
    \/ \E w \in Workers : WorkerBegin(w)
    \/ \E w \in Workers : WorkerTake(w)
    \/ \E w \in Workers : TranscribeEnter(w)
    \/ \E w \in Workers : CallbackProgress(w)
    \/ \E w \in Workers : CallbackMessage(w)
    \/ \E w \in Workers : AsrPipe(w)
    \/ \E w \in Workers : EstimateProgress(w)
    \/ \E w \in Workers : AsrJoin(w)
    \/ \E w \in Workers : FinalLock(w)
    \/ \E w \in Workers : FinalErrorMessage(w)
    \/ \E w \in Workers : SaveResult(w)
    \/ \E w \in Workers : FinalProgress(w)
    \/ \E w \in Workers : FinalMessage(w)
    \/ \E w \in Workers : ExceptLock(w)
    \/ \E w \in Workers : ExceptMessage(w)
    \/ ReadCall
    \/ ReadLock
    \/ ReadReturn

Spec == Init /\ [][Next]_vars

(***************************************************************************)
(* FairSpec: the callers and the workers under weak fairness of every      *)
(* thread's next step (each thread that can run is eventually scheduled).  *)
(* The poller is left out: it holds _jobs_lock for the length of one dict  *)
(* copy and takes part in no eventuality stated below.                     *)
(***************************************************************************)
WorkerStep(w) ==
    \/ WorkerBegin(w) \/ WorkerTake(w) \/ TranscribeEnter(w) \/ CallbackProgress(w)
    \/ CallbackMessage(w) \/ AsrPipe(w) \/ AsrJoin(w)
    \/ FinalLock(w) \/ FinalErrorMessage(w) \/ SaveResult(w)
    \/ FinalProgress(w) \/ FinalMessage(w) \/ ExceptLock(w) \/ ExceptMessage(w)

CallerStep(c) ==
    \/ EnqueueLockQueue(c) \/ EnqueueLockJobs(c) \/ EnqueueBody(c) \/ EnqueueCheckStart(c)

FairNext ==
    \/ \E c \in Callers : Call(c)
    \/ \E c \in Callers : CallerStep(c)
    \/ \E w \in Workers : WorkerStep(w)
    \/ \E w \in Workers : EstimateProgress(w)

FairSpec ==
    /\ Init /\ [][FairNext]_vars
    /\ \A w \in Workers : WF_vars(WorkerStep(w))
    /\ \A w \in Workers : WF_vars(EstimateProgress(w))
    /\ \A c \in Callers : WF_vars(CallerStep(c))

(***************************************************************************)
(* Positions of a worker thread.                                           *)
(***************************************************************************)
\* the worker is inside _transcribe_file with a job in hand
InTranscribe(w) ==
    wpc[w] \in {"enter", "run", "cb_message", "asr", "join", "final", "error_message", "save",
                "done_progress", "done_message", "except", "except_message"}

\* the worker runs the while loop of _process_queue
Draining(w) == wpc[w] = "loop" \/ InTranscribe(w)

\* a writer has written some, not all, of the fields of one update
MidUpdate(w) ==
    wpc[w] \in {"cb_message", "error_message", "done_progress", "done_message",
                "except_message"}

\* C1: at most one worker thread drains processing_queue at any moment, and
\* at most one job is inside _transcribe_file at any moment.
C1_SingleWorker ==
    /\ Cardinality({w \in Workers : Draining(w)}) <= 1
    /\ Cardinality({w \in Workers : InTranscribe(w)}) <= 1

\* the status changes the per-job state machine allows
AllowedStatusChange(old, new) ==
    \/ old = new
    \/ old = "absent" /\ new = "pending"
    \/ old = "pending" /\ new = "processing"
    \/ old = "processing" /\ new \in {"completed", "error"}
    \/ old \in {"completed", "error"} /\ new = "processing"

\* C2: the status of every active_jobs entry only changes along
\* pending -> processing, processing -> completed, processing -> error, and
\* from a terminal status only to processing (a re-enqueued job is dequeued);
\* completed never becomes error directly, nor error completed.
C2_StatusMachine ==
    [][\A p \in Paths :
          AllowedStatusChange(active_jobs[p].status, active_jobs'[p].status)]_vars

\* C4: jobs leave processing_queue in the order startTranscription appended
\* them, and every appended job is handed to _transcribe_file exactly once:
\* no job is popped twice and no job is in the hands of two workers.
C4_FifoExactlyOnce ==
    /\ appended = dequeued \o JobIds(processing_queue)
    /\ \A i, j \in 1..Len(dequeued) : i # j => dequeued[i] # dequeued[j]
    /\ \A w \in Workers :
          wjob[w] # NoJob => /\ \E i \in 1..Len(dequeued) : dequeued[i] = wjob[w].id
                             /\ \A v \in Workers \ {w} : wjob[v].id # wjob[w].id
    /\ \A w \in Workers : InTranscribe(w) <=> wjob[w] # NoJob

\* C4 witness: two jobs appended by different calls were popped in order and
\* the queue is drained.
C4_Witness ==
    /\ Len(dequeued) = 2
    /\ dequeued[1][1] # dequeued[2][1]
    /\ processing_queue = <<>>
    /\ \A w \in Workers : wjob[w] = NoJob

\* C5: a getAllProgress call never waits for a lock because a
\* startTranscription call is in progress, and a startTranscription call
\* never waits because getAllProgress or the worker (final update, with
\* save_result running) holds the status-table lock.
C5_NoCrossBlocking ==
    /\ ~(rpc = "want_jobs" /\ \E c \in Callers : jobs_lock = CallerId(c))
    /\ \A c \in Callers :
          ~(cpc[c] = "want_jobs" /\ (jobs_lock = ReaderId \/ \E w \in Workers : jobs_lock = WorkerId(w)))

\* C6: the dict getAllProgress returns is the table of one instant at which
\* no writer (progress callback, final completed/error update, except
\* handler) had applied only part of the fields of an update.
C6_ConsistentSnapshot ==
    [][(rpc = "reading" /\ rpc' = "idle") =>
          /\ rresult = Snapshot(active_jobs)
          /\ \A w \in Workers : ~MidUpdate(w)]_vars

\* C6 witness: a snapshot is about to be returned while a worker is between
\* two progress callbacks of a job that is in the snapshot.
C6_Witness ==
    /\ rpc = "reading"
    /\ \E w \in Workers :
          /\ wpc[w] = "run"
          /\ wstage[w] > 1
          /\ wjob[w].path \in DOMAIN rresult
          /\ rresult[wjob[w].path].status = "processing"
          /\ rresult[wjob[w].path].progress = Stages[wstage[w] - 1].progress

\* the file_paths argument names path p
Names(files, p) == \E i \in 1..Len(files) : files[i] = p

\* C7: startTranscription creates {0, pending, Queued} for each path of its
\* argument that is not tracked, leaves every tracked entry as it is (also
\* in a terminal status), and changes no entry of any other path.
C7_EnqueueFrame ==
    [][\A c \in Callers :
          cpc'[c] # cpc[c] =>
             \A p \in Paths :
                active_jobs'[p] =
                   IF cpc[c] = "body" /\ Names(cargs[c], p) /\ active_jobs[p] = Absent
                   THEN [progress |-> 0, status |-> "pending", message |-> "Queued"]
                   ELSE active_jobs[p]]_vars

\* C7 witness: a call has just appended a job for a path whose entry is in
\* a terminal status, next to the entry it created for another call's path.
C7_Witness ==
    \E c \in Callers :
       /\ cpc[c] = "check"
       /\ \E i \in 1..Len(processing_queue) :
             /\ processing_queue[i].id[1] = c
             /\ active_jobs[processing_queue[i].path].status \in {"completed", "error"}

\* C3: when a step of a job's run raises, the worker records status error
\* with the exception text as message before it leaves the job, it does not
\* terminate but returns to the while loop with the queue untouched, and
\* every job still queued is then dequeued (the queue drains).
C3_ErrorContained ==
    /\ [][\A w \in Workers :
             wres[w] # "" =>
                /\ wpc'[w] # "exited"
                /\ wpc'[w] = "loop" =>
                      /\ active_jobs'[wjob[w].path].status = "error"
                      /\ active_jobs'[wjob[w].path].message = wres[w]
                      /\ processing_queue' = processing_queue]_vars
    /\ \A w \in Workers : [](wres[w] # "" => <>(wres[w] = "" /\ wpc[w] = "loop"))
    /\ \A w \in Workers : [](wres[w] # "" => <>(processing_queue = <<>>))

\* C3 witness: a job whose ASR call raised stands at error with that text
\* (its progress still the one of "Starting transcription..."), and the
\* worker that ran it has dequeued the next job.
C3_Witness ==
    \E w \in Workers :
       /\ wpc[w] = "enter"
       /\ Len(dequeued) = 2
       /\ \A v \in Workers \ {w} : wpc[v] = "unborn"
       /\ \E p \in Paths :
             /\ p # wjob[w].path
             /\ active_jobs[p] = [progress |-> 20, status |-> "error", message |-> "ASR failed"]

\* C21: the status of a file becomes completed only in the step in which
\* save_result returns for the result of the job in hand, having written it;
\* a result that carries an error is never passed to save_result and never
\* written; and a worker whose save_result raised leaves the job with status
\* error and nothing written for it.
C21_CompletedOnlyAfterSave ==
    /\ [][\A p \in Paths :
             (active_jobs'[p].status = "completed" /\ active_jobs[p].status # "completed") =>
                \E w \in Workers :
                   /\ wpc[w] = "save"
                   /\ wjob[w].path = p
                   /\ [id |-> wjob[w].id, error |-> ""] \in disk' \ disk]_vars
    /\ [](\A w \in Workers : wpc[w] = "save" => wres[w] = "")
    /\ [](\A r \in disk : r.error = "")
    /\ [][\A w \in Workers :
             (wres[w] = SaveError /\ wpc'[w] = "loop") =>
                /\ active_jobs'[wjob[w].path].status = "error"
                /\ \A r \in disk' : r.id # wjob[w].id]_vars

\* C21 witness: one job was saved and stands at completed, the save of the
\* other raised and it stands at error, and one result is on disk.
C21_Witness ==
    \E p, q \in Paths :
       /\ p # q
       /\ active_jobs[p] = [progress |-> 100, status |-> "completed", message |-> "Complete"]
       /\ active_jobs[q].status = "error"
       /\ active_jobs[q].message = SaveError
       /\ Cardinality(disk) = 1
       /\ \A w \in Workers : wjob[w] = NoJob

\* no writer is part-way through an update of the entry of path p
EntrySettled(p) == \A w \in Workers : MidUpdate(w) => wjob[w].path # p

\* C22: in every state of the status table between updates, whatever was
\* enqueued (the same path more than once included), an entry whose status
\* is completed has progress 100 and message "Complete".
C22_CompletedIsComplete ==
    \A p \in Paths :
       (active_jobs[p].status = "completed" /\ EntrySettled(p)) =>
          /\ active_jobs[p].progress = 100
          /\ active_jobs[p].message = "Complete"

\* C23: while the status of a file is processing, the progress of its entry
\* is within 0..100 and does not decrease from one table state to the next,
\* for a first job of the file and for a job of a file enqueued again after
\* a completed or error run.
C23_ProgressMonotone ==
    /\ [](\A p \in Paths :
            active_jobs[p].status = "processing" => active_jobs[p].progress \in 0..100)
    /\ [][\A p \in Paths :
             (active_jobs[p].status = "processing" /\ active_jobs'[p].status = "processing") =>
                active_jobs'[p].progress >= active_jobs[p].progress]_vars

\* the steps of the getAllProgress call
ReaderStep == ReadLock \/ ReadReturn

\* the thread is inside "with self._queue_lock:" / "with self._jobs_lock:"
CallerInQueueBlock(c) == cpc[c] \in {"want_jobs", "body"}
CallerInJobsBlock(c) == cpc[c] = "body"
WorkerInJobsBlock(w) ==
    wpc[w] \in {"cb_message", "error_message", "save", "done_progress", "done_message",
                "except_message"}

\* the thread that holds _jobs_lock can take its next step
JobsHolderRuns ==
    /\ \A c \in Callers : jobs_lock = CallerId(c) => ENABLED CallerStep(c)
    /\ \A w \in Workers : jobs_lock = WorkerId(w) => ENABLED WorkerStep(w)
    /\ jobs_lock = ReaderId => ENABLED ReaderStep

\* C24: no interleaving of startTranscription callers, getAllProgress
\* callers and workers reaches a deadlock: a lock is held exactly by a thread
\* inside its with-block (so it is released on every exit, the exception of
\* save_result included), the thread that takes _queue_lock holds no
\* _jobs_lock (the two are nested queue-then-jobs only), the holder of
\* _jobs_lock can always run, and so can the holder of _queue_lock unless it
\* waits for a _jobs_lock whose holder can run.
C24_NoDeadlock ==
    /\ [](\A c \in Callers :
            /\ queue_lock = CallerId(c) <=> CallerInQueueBlock(c)
            /\ jobs_lock = CallerId(c) <=> CallerInJobsBlock(c))
    /\ [](\A w \in Workers :
            /\ queue_lock # WorkerId(w)
            /\ jobs_lock = WorkerId(w) <=> WorkerInJobsBlock(w))
    /\ [](queue_lock # ReaderId /\ (jobs_lock = ReaderId <=> rpc = "reading"))
    /\ [][(queue_lock' # queue_lock /\ queue_lock' # Free) =>
             /\ jobs_lock # queue_lock'
             /\ jobs_lock' # queue_lock']_vars
    /\ [](\A w \in Workers : wpc[w] = "loop" => jobs_lock # WorkerId(w))
    /\ []JobsHolderRuns
    /\ [](\A c \in Callers :
            queue_lock = CallerId(c) => ENABLED CallerStep(c) \/ jobs_lock # Free)

\* C24 witness: a caller inside its _queue_lock block and a poller both wait
\* for _jobs_lock while a worker holds it with save_result running, after
\* the save_result of an earlier job raised.
C24_Witness ==
    \E c \in Callers, w \in Workers :
       /\ cpc[c] = "want_jobs"
       /\ rpc = "want_jobs"
       /\ wpc[w] = "save"
       /\ \E p \in Paths : active_jobs[p].message = SaveError

(***************************************************************************)
(* TranscriptionEngine._format_result (transcriber.py:570-609).            *)
(*                                                                         *)
(* SpecFormat: the function applied to every list of combined entries of   *)
(* at most MaxEntries entries.  A speaker "Speaker k" is written k; the    *)
(* text of the i-th entry is the one-word list <<i>>, so that text joined  *)
(* with " " is list concatenation and a merged text shows the entries it   *)
(* was built from.                                                         *)
(***************************************************************************)
\* longest list of combined entries
MaxEntries == 4
\* largest cluster label of an entry's speaker
MaxLabel == 2

SpeakerLabels == 0..MaxLabel
StartTimes == {0, 3725}

\* the decimal digits of k, as the string "Speaker k" ends with them
RECURSIVE Digits(_)
Digits(k) == IF k < 10 THEN <<k>> ELSE Append(Digits(k \div 10), k % 10)

\* Python's str < str on the digit strings
RECURSIVE StrLess(_, _)
StrLess(a, b) ==
    IF a = <<>> THEN b # <<>>
    ELSE IF b = <<>> THEN FALSE
    ELSE IF Head(a) # Head(b) THEN Head(a) < Head(b)
    ELSE StrLess(Tail(a), Tail(b))

\* sorted(list(set(...))) of speaker names
RECURSIVE SortedSpeakers(_)
SortedSpeakers(S) ==
    IF S = {} THEN <<>>
    ELSE LET first == CHOOSE x \in S : \A y \in S \ {x} : StrLess(Digits(x), Digits(y))
         IN  <<first>> \o SortedSpeakers(S \ {first})

\* mutant: the cluster label itself is taken as the index
SpeakerIndexIsLabel(speakers, label) == label

\* speaker_map[label]: the 0-based position enumerate gives the speaker
SpeakerIndex(speakers, label) ==
    (CHOOSE i \in 1..Len(speakers) : speakers[i] = label) - 1

\* _format_timestamp: (hours, minutes, seconds) of HH:MM:SS
FormatTimestamp(seconds) ==
    <<seconds \div 3600, (seconds % 3600) \div 60, seconds % 60>>

\* the entry appended to transcribed_text for one combined entry
Transcribed(speakers, entry) ==
    [text |-> entry.text,
     speakerIndex |-> SpeakerIndex(speakers, entry.speaker),
     timestamp |-> FormatTimestamp(entry.start)]

\* mutant: the entry joins the latest merged entry of its speaker, adjacent or not
MergeIntoAnyEarlier(merged, entry) ==
    IF \E i \in 1..Len(merged) : merged[i].speakerIndex = entry.speakerIndex
    THEN LET i == CHOOSE j \in 1..Len(merged) :
                     /\ merged[j].speakerIndex = entry.speakerIndex
                     /\ \A k \in (j + 1)..Len(merged) : merged[k].speakerIndex # entry.speakerIndex
         IN  [merged EXCEPT ![i].text = @ \o entry.text]
    ELSE Append(merged, entry)

\* one pass of the merge loop (transcriber.py:587-593)
MergeInto(merged, entry) ==
    IF merged # <<>> /\ merged[Len(merged)].speakerIndex = entry.speakerIndex
    THEN [merged EXCEPT ![Len(merged)].text = @ \o entry.text]
    ELSE Append(merged, entry)

\* the merge loop over the first n entries of transcribed_text
RECURSIVE MergeAll(_, _)
MergeAll(entries, n) ==
    IF n = 0 THEN <<>> ELSE MergeInto(MergeAll(entries, n - 1), entries[n])

CombinedLists ==
    UNION {[1..n -> [speaker : SpeakerLabels, start : StartTimes]] : n \in 0..MaxEntries}

FormatInit ==
    /\ \E c \in CombinedLists :
          fin = [i \in 1..Len(c) |-> [text |-> <<i>>, speaker |-> c[i].speaker, start |-> c[i].start]]
    /\ fst = [pc |-> "called"]

\* transcriber.py:573-583: speakers, speaker_map and transcribed_text
FormatEntries ==
    /\ fst.pc = "called"
    /\ LET speakers == SortedSpeakers({fin[i].speaker : i \in 1..Len(fin)})
       IN  fst' = [pc |-> "entries",
                   speakers |-> speakers,
                   speaker_map |-> [l \in {fin[i].speaker : i \in 1..Len(fin)} |->
                                       SpeakerIndex(speakers, l)],
                   transcribed_text |-> [i \in 1..Len(fin) |-> Transcribed(speakers, fin[i])]]
    /\ UNCHANGED <<fin, kin, kst, din, dst, tres, qvars>>

\* transcriber.py:585-609: the merge loop and the result
FormatMerge ==
    /\ fst.pc = "entries"
    /\ fst' = [pc |-> "done",
               speakers |-> fst.speakers,
               speaker_map |-> fst.speaker_map,
               transcribed_text |-> fst.transcribed_text,
               merged_text |-> MergeAll(fst.transcribed_text, Len(fst.transcribed_text))]
    /\ UNCHANGED <<fin, kin, kst, din, dst, tres, qvars>>

FormatNext == FormatEntries \/ FormatMerge

FormatStart == ApiInit /\ ClusterIdle /\ DiarizeIdle /\ FormatInit

SpecFormat == FormatStart /\ [][FormatNext]_vars

\* C8: in every result of _format_result the map from the distinct speaker
\* labels of the combined entries to speakerIndex is a bijection onto
\* 0..N-1, N the number of distinct labels; every speakerIndex of
\* transcribedText is a valid index into speakers, and every listed speaker
\* is the speaker of at least one entry.
C8_SpeakerIndexBijection ==
    fst.pc = "done" =>
       LET labels == {fin[i].speaker : i \in 1..Len(fin)}
           N == Cardinality(labels)
       IN  /\ DOMAIN fst.speaker_map = labels
           /\ {fst.speaker_map[l] : l \in labels} = 0..(N - 1)
           /\ \A a, b \in labels : fst.speaker_map[a] = fst.speaker_map[b] => a = b
           /\ Len(fst.speakers) = N
           /\ \A i \in 1..Len(fin) :
                 fst.transcribed_text[i].speakerIndex = fst.speaker_map[fin[i].speaker]
           /\ \A i \in 1..Len(fst.merged_text) :
                 /\ fst.merged_text[i].speakerIndex \in 0..(Len(fst.speakers) - 1)
                 /\ fst.speakers[fst.merged_text[i].speakerIndex + 1] \in labels
           /\ \A k \in 1..Len(fst.speakers) :
                 \E i \in 1..Len(fst.merged_text) : fst.merged_text[i].speakerIndex = k - 1

\* C8 witness: a result whose labels 0 and 2 (1 is not used) got the
\* indices 0 and 1.
C8_Witness ==
    /\ fst.pc = "done"
    /\ {fin[i].speaker : i \in 1..Len(fin)} = {0, 2}
    /\ fst.speaker_map[2] = 1
    /\ Len(fst.merged_text) = 3

\* the concatenation of the texts of the first n entries
RECURSIVE JoinTexts(_, _)
JoinTexts(entries, n) ==
    IF n = 0 THEN <<>> ELSE JoinTexts(entries, n - 1) \o entries[n].text

\* C9: the merge step outputs no more entries than it received; each
\* output entry is built from a run of consecutive input entries that all
\* have its speakerIndex (and keeps the timestamp of the first of them);
\* the runs follow each other in input order, so entries of one speaker
\* that are not adjacent are neither combined nor reordered.
C9_MergeAdjacentOnly ==
    fst.pc = "done" =>
       LET input == fst.transcribed_text
           out == fst.merged_text
       IN  /\ Len(out) <= Len(input)
           /\ JoinTexts(out, Len(out)) = [i \in 1..Len(input) |-> i]
           /\ \A k \in 1..Len(out) :
                 LET run == out[k].text
                 IN  /\ run # <<>>
                     /\ \A j \in 1..Len(run) :
                           /\ run[j] = run[1] + j - 1
                           /\ input[run[j]].speakerIndex = out[k].speakerIndex
                     /\ out[k].timestamp = input[run[1]].timestamp

\* C9 witness: entries of one speaker on both sides of another speaker's
\* entry stay apart, while two adjacent ones were merged.
C9_Witness ==
    /\ fst.pc = "done"
    /\ Len(fin) = 4
    /\ Len(fst.merged_text) = 3
    /\ fst.merged_text[1].speakerIndex = fst.merged_text[3].speakerIndex
    /\ fst.merged_text[1].text = <<1, 2>>
    /\ fst.merged_text[3].text = <<4>>

(***************************************************************************)
(* SpeakerDiarizer._cluster (transcriber.py:353-415).                      *)
(*                                                                         *)
(* SpecCluster: the function applied to n embeddings, n in 0..MaxEmb.  The *)
(* embeddings enter through what _cluster computes from them: the mean and *)
(* the minimum of the pairwise cosine similarities and, for each cluster   *)
(* count k, the silhouette score of the k-cluster labeling.  Similarities  *)
(* and scores are in hundredths.  kst.calls records which library          *)
(* functions the call has used so far.                                     *)
(***************************************************************************)
\* largest number of embeddings
MaxEmb == 11
\* max_speakers = min(10, len(embeddings))
MaxSpeakersCap == 10

AvgSimilarities == {60, 70, 80, 95}
MinSimilarities == {50, 88}
ScoreValues == {12, 15, 32}

Min2(a, b) == IF a < b THEN a ELSE b

MaxSpeakers(n) == Min2(MaxSpeakersCap, n)

\* AgglomerativeClustering(n_clusters=k).fit_predict on n samples: n labels
\* that use each of 0..k-1; which sample gets which label depends on the
\* embeddings, so the model picks among labelings of that shape
FitPredict(n, k) ==
    {[i \in 1..n |-> (i + r) % k] : r \in {0, k - 1}}

\* sklearn's silhouette_score accepts 2 <= number of labels <= n_samples - 1
\* and raises ValueError otherwise; fit_predict with n_clusters = k yields
\* k distinct labels
SilhouetteRaises(n, k) == ~(2 <= k /\ k <= n - 1)

\* scores[1] (transcriber.py:389-390)
SingleClusterScore(avg) ==
    IF avg > 85 THEN 28 ELSE IF avg > 75 THEN 12 ELSE IF avg > 65 THEN 0 ELSE -15

\* mutant: the penalty is added to the score instead of taken off it
PenaltyAsBonus(k) == IF k = 2 THEN -1 ELSE -((k - 2) * 3 + 1)

\* transcriber.py:399
Penalty(k) == IF k = 2 THEN 1 ELSE (k - 2) * 3 + 1

\* mutant: a candidate that only equals the best so far replaces it
RECURSIVE SearchLastBest(_, _)
SearchLastBest(scores, k) ==
    IF k < 2 THEN <<1, scores[1]>>
    ELSE LET prev == SearchLastBest(scores, k - 1)
         IN  IF scores[k] - Penalty(k) >= prev[2]
             THEN <<k, scores[k] - Penalty(k)>>
             ELSE prev

\* mutant: best_score starts at -1.0 instead of scores[1]
RECURSIVE SearchFromFloor(_, _)
SearchFromFloor(scores, k) ==
    IF k < 2 THEN <<1, -100>>
    ELSE LET prev == SearchFromFloor(scores, k - 1)
         IN  IF scores[k] - Penalty(k) > prev[2]
             THEN <<k, scores[k] - Penalty(k)>>
             ELSE prev

\* the search loop (transcriber.py:395-402) after candidates 2..k:
\* <<best_n, best_score>>
RECURSIVE Search(_, _)
Search(scores, k) ==
    IF k < 2 THEN <<1, scores[1]>>
    ELSE LET prev == Search(scores, k - 1)
         IN  IF scores[k] - Penalty(k) > prev[2]
             THEN <<k, scores[k] - Penalty(k)>>
             ELSE prev

\* the condition of the reversion guard (transcriber.py:405-406)
GuardFires(scores, best, avg, min) ==
    /\ best > 1 /\ avg > 92 /\ min > 80
    /\ scores[best] < 20 /\ scores[1] > scores[best] + 10

\* the minimum of the similarities is at most their mean
ClusterInputs ==
    UNION {{in \in [n : {n}, avg : AvgSimilarities, min : MinSimilarities,
                    sil : [2..MaxSpeakers(n) -> ScoreValues]] : in.min <= in.avg}
           : n \in 0..MaxEmb}

\* mutant: only the empty list is answered without clustering
TooFewOnlyEmpty(n) == n < 1

\* len(embeddings) < 2 (transcriber.py:356)
TooFew(n) == n < 2

LibraryCalls == {"cosine_similarity", "fit_predict", "silhouette_score"}

ClusterInit ==
    /\ kin \in ClusterInputs
    /\ kst = [pc |-> "called"]

\* transcriber.py:356-357
ClusterSmall ==
    /\ kst.pc = "called"
    /\ TooFew(kin.n)
    /\ kst' = [pc |-> "done", raised |-> FALSE, calls |-> {},
               labels |-> [i \in 1..kin.n |-> 0]]
    /\ UNCHANGED <<kin, fin, fst, din, dst, tres, qvars>>

\* transcriber.py:376-392: the scoring loop; an exception of
\* silhouette_score leaves _cluster
ClusterScore ==
    /\ kst.pc = "called"
    /\ ~TooFew(kin.n)
    /\ IF \E k \in 2..MaxSpeakers(kin.n) : SilhouetteRaises(kin.n, k)
       THEN kst' = [pc |-> "done", raised |-> TRUE, calls |-> LibraryCalls, labels |-> <<>>]
       ELSE kst' = [pc |-> "scored", calls |-> LibraryCalls,
                    scores |-> [k \in 1..MaxSpeakers(kin.n) |->
                                   IF k = 1 THEN SingleClusterScore(kin.avg) ELSE kin.sil[k]]]
    /\ UNCHANGED <<kin, fin, fst, din, dst, tres, qvars>>

\* transcriber.py:394-409: the search loop, then the reversion guard
ClusterChoose ==
    /\ kst.pc = "scored"
    /\ LET found == Search(kst.scores, MaxSpeakers(kin.n))[1]
           fires == GuardFires(kst.scores, found, kin.avg, kin.min)
       IN  kst' = [pc |-> "chosen", calls |-> kst.calls, scores |-> kst.scores, searched |-> found,
                   reverted |-> fires, best_n |-> IF fires THEN 1 ELSE found]
    /\ UNCHANGED <<kin, fin, fst, din, dst, tres, qvars>>

\* transcriber.py:414-415
ClusterFinal ==
    /\ kst.pc = "chosen"
    /\ \E l \in FitPredict(kin.n, kst.best_n) :
          kst' = [pc |-> "done", raised |-> FALSE, calls |-> kst.calls, labels |-> l,
                  scores |-> kst.scores,
                  searched |-> kst.searched, reverted |-> kst.reverted, best_n |-> kst.best_n]
    /\ UNCHANGED <<kin, fin, fst, din, dst, tres, qvars>>

ClusterNext == ClusterSmall \/ ClusterScore \/ ClusterChoose \/ ClusterFinal

ClusterStart == ApiInit /\ FormatIdle /\ DiarizeIdle /\ ClusterInit

SpecCluster == ClusterStart /\ [][ClusterNext]_vars

\* C10: for every non-empty embedding list _cluster returns without raising
\* one integer label per embedding, each in 0..bestK-1 (sizes 2..10, where
\* a silhouette score is asked for k = number of embeddings, included).
C10_ClusterReturnsLabels ==
    kst.pc = "done" =>
       /\ ~kst.raised
       /\ Len(kst.labels) = kin.n
       /\ \A i \in 1..kin.n :
             kst.labels[i] \in 0..((IF kin.n < 2 THEN 1 ELSE kst.best_n) - 1)

\* C11: for an embedding list of size < 2 (empty or one embedding) _cluster
\* returns one label 0 per embedding, and it does so in its first step:
\* no similarity is computed, no clustering is fitted, no score is asked for.
C11_SmallAllZero ==
    kin.n < 2 =>
       /\ kst.pc \in {"called", "done"}
       /\ kst.pc = "done" =>
             /\ ~kst.raised
             /\ kst.labels = [i \in 1..kin.n |-> 0]
             /\ kst.calls = {}

\* C11 witness: the call with one embedding has returned its single label 0.
C11_Witness ==
    /\ kin.n = 1
    /\ kst.pc = "done"
    /\ kst.labels = <<0>>

\* the scenario of C12 in a call that has its score table: avgSimilarity
\* 0.95, minSimilarity 0.88, score[1] = 0.28, and k = 3 the best-scoring
\* k > 1 with score[3] = 0.15
C12_Scenario ==
    /\ kst.pc \in {"chosen", "done"}
    /\ "scores" \in DOMAIN kst
    /\ kin.avg = 95 /\ kin.min = 88
    /\ kst.scores[1] = 28
    /\ kst.scores[3] = 15
    /\ \A k \in DOMAIN kst.scores : k \notin {1, 3} => kst.scores[k] < 15

\* C12 as stated: in the scenario the reversion guard fires (the branch that
\* forces best_n = 1 is executed) and the final speaker count is 1.
C12_GuardFiresInScenario ==
    C12_Scenario => kst.reverted /\ kst.best_n = 1

\* C12 amended: in the scenario the penalised search itself keeps
\* best_n = 1 (0.15 - 0.04 does not exceed 0.28), so the reversion guard,
\* which asks for best_n > 1, does not fire; the final speaker count is 1
\* and every embedding gets label 0.
C12_ScenarioKeepsOne ==
    C12_Scenario =>
       /\ kst.searched = 1
       /\ ~kst.reverted
       /\ kst.best_n = 1
       /\ kst.pc = "done" => ~kst.raised /\ kst.labels = [i \in 1..kin.n |-> 0]

\* C12 witness: a call in the scenario has returned.
C12_Witness ==
    /\ C12_Scenario
    /\ kst.pc = "done"
    /\ kin.n >= 11

\* C16: for every score table over k = 1..maxSpeakers, maxSpeakers =
\* min(10, number of embeddings), the count the search loop selects is the
\* smallest k that maximises score[k] - penalty(k), with penalty(1) = 0,
\* penalty(2) = 0.01 and penalty(k) = (k-2)*0.03 + 0.01 for k > 2.
C16_PenalisedArgmax ==
    "searched" \in DOMAIN kst =>
       LET maxSpeakers == IF kin.n < 10 THEN kin.n ELSE 10
           penalty(k) == IF k = 1 THEN 0 ELSE IF k = 2 THEN 1 ELSE (k - 2) * 3 + 1
           value(k) == kst.scores[k] - penalty(k)
       IN  /\ DOMAIN kst.scores = 1..maxSpeakers
           /\ kst.searched \in 1..maxSpeakers
           /\ \A k \in 1..maxSpeakers : value(k) <= value(kst.searched)
           /\ \A k \in 1..(kst.searched - 1) : value(k) < value(kst.searched)

\* C16 witness: k = 2 and k = 3 tie for the best penalised score (0.12 -
\* 0.01 = 0.15 - 0.04), above score[1] = 0, and the loop selected 2.
C16_Witness ==
    /\ kst.pc = "chosen"
    /\ kst.searched = 2
    /\ kst.scores[1] = 0
    /\ kst.scores[2] = 12
    /\ kst.scores[3] = 15

\* C17: the cluster count _cluster finally uses is the count its penalised
\* search loop selected: for every score table, avgSimilarity and
\* minSimilarity the reversion guard leaves best_n as it is.
C17_GuardNeverReverts ==
    "searched" \in DOMAIN kst =>
       /\ ~kst.reverted
       /\ kst.best_n = kst.searched
       /\ ~GuardFires(kst.scores, kst.searched, kin.avg, kin.min)

\* C17 witness: the loop selected more than one cluster for embeddings as
\* similar as the guard asks for (avg > 0.92, min > 0.80), and the final
\* clustering was fitted with that count.
C17_Witness ==
    /\ kst.pc = "done"
    /\ "searched" \in DOMAIN kst
    /\ kst.searched > 1
    /\ kin.avg > 92 /\ kin.min > 80
    /\ \E i \in 1..kin.n : kst.labels[i] = kst.searched - 1

\* the ids startTranscription can give a job
AllJobIds == {<<c, i>> : c \in Callers, i \in 1..MaxJobs}

\* a worker thread exists that has not yet found the queue empty
WorkerPending == \E w \in Workers : wpc[w] = "start" \/ Draining(w)

\* a startTranscription call is between its append and its test of
\* is_processing, and the test will start a worker
StartPending == \E c \in Callers : cpc[c] = "check" /\ ~is_processing

\* C14: no job is lost.  In no reachable state is the queue non-empty with
\* no worker running or about to run and no worker going to be started, and
\* under fair scheduling (each run returning) every job appended to
\* processing_queue is eventually dequeued.
C14_NoLostJob ==
    /\ [](processing_queue # <<>> => WorkerPending \/ StartPending)
    /\ \A id \in AllJobIds : InSeq(id, appended) ~> InSeq(id, dequeued)

\* C14 witness: one worker has run the first call's job, found the queue
\* empty and exited; the job of the other call has been dequeued by the
\* worker that call started.
C14_Witness ==
    \E v, w \in Workers :
       /\ wpc[v] = "exited"
       /\ wpc[w] = "enter"
       /\ wjob[w].id[1] = w
       /\ Len(dequeued) = 2
       /\ dequeued[1][1] = v

\* C15: every entry whose status becomes processing eventually has status
\* completed or error (each external call returning or raising, scheduling
\* fair): no path through transcribe or _transcribe_file leaves it at
\* processing.
C15_ProcessingEnds ==
    \A p \in Paths :
       (active_jobs[p].status = "processing") ~>
          (active_jobs[p].status \in {"completed", "error"})

\* C15 witness: a job whose ASR call raised, after the estimate_progress
\* thread was joined, stands at error.
C15_Witness ==
    \E p \in Paths :
       /\ active_jobs[p].status = "error"
       /\ active_jobs[p].message = AsrError
       /\ \A w \in Workers : progress_thread[w] = "none"

(***************************************************************************)
(* SpeakerDiarizer.diarize (transcriber.py:252-327), followed by           *)
(* TranscriptionEngine._combine, _format_result and the final update of    *)
(* Api._transcribe_file.                                                   *)
(*                                                                         *)
(* SpecPipeline: one job from the normalized ASR segments to its status.   *)
(* Times are in milliseconds; NoTime stands for None.  The text of the     *)
(* i-th segment is the one-word list <<i>> (<<>> for an empty text), a     *)
(* speaker "Speaker k" is written k.  Each segment carries whether         *)
(* preprocess_wav and embed_utterance return for its audio (encodes).      *)
(***************************************************************************)
\* longest segment list
MaxSegs == 12
\* most segments of a list that are not plain embedded segments
MaxOdd == 2

NoTime == -1

\* the ways a segment can differ from a plain one
Shapes == {"failed", "short", "inverted", "no_end", "no_start", "near_next", "blank"}

\* the i-th segment of a list: a plain one lasts from 2(i-1) s to 2i s
Segment(i, shape) ==
    LET b == 2000 * (i - 1)
        e == 2000 * i
    IN  CASE shape = "ok"        -> [start |-> b, end |-> e, text |-> <<i>>, encodes |-> TRUE]
          [] shape = "failed"    -> [start |-> b, end |-> e, text |-> <<i>>, encodes |-> FALSE]
          [] shape = "short"     -> [start |-> b, end |-> b + 200, text |-> <<i>>, encodes |-> TRUE]
          [] shape = "inverted"  -> [start |-> b + 1000, end |-> b + 1000, text |-> <<i>>, encodes |-> TRUE]
          [] shape = "no_end"    -> [start |-> b, end |-> NoTime, text |-> <<i>>, encodes |-> TRUE]
          [] shape = "no_start"  -> [start |-> NoTime, end |-> e, text |-> <<i>>, encodes |-> TRUE]
          [] shape = "near_next" -> [start |-> e - 30, end |-> e + 2000 - 30, text |-> <<i>>,
                                     encodes |-> FALSE]
          [] shape = "blank"     -> [start |-> b, end |-> e, text |-> <<>>, encodes |-> TRUE]

\* which segments of an n-segment list are not plain, and how
OddPlacements(n) ==
    UNION {[P -> Shapes] : P \in {Q \in SUBSET (1..n) : Cardinality(Q) <= MaxOdd}}

SegmentList(n, odd) ==
    [i \in 1..n |-> Segment(i, IF i \in DOMAIN odd THEN odd[i] ELSE "ok")]

\* the segment lists of length n
DiarizeInputs(n) == {SegmentList(n, odd) : odd \in OddPlacements(n)}

DiarizeInit ==
    /\ \E n \in 0..MaxSegs : din \in DiarizeInputs(n)
    /\ dst = [pc |-> "called"]
    /\ tres = [pc |-> "none"]

Abs(x) == IF x < 0 THEN -x ELSE x

\* x or 0 (transcriber.py:289-290)
OrZero(x) == IF x = NoTime THEN 0 ELSE x

\* mutant: the check for very short segments is missing
EmbedsShortToo(seg) ==
    /\ seg.start # NoTime /\ seg.end # NoTime
    /\ seg.end > seg.start
    /\ seg.encodes

\* transcriber.py:270-286: the segment gets an embedding
Embeds(seg) ==
    /\ seg.start # NoTime /\ seg.end # NoTime
    /\ seg.end > seg.start
    /\ seg.end - seg.start >= 300
    /\ seg.encodes

\* the indices of the segments among the first n that got an embedding, in order
RECURSIVE Embedded(_, _)
Embedded(segs, n) ==
    IF n = 0 THEN <<>>
    ELSE IF Embeds(segs[n]) THEN Append(Embedded(segs, n - 1), n)
         ELSE Embedded(segs, n - 1)

\* transcriber.py:255-256
DiarizeNoSegments ==
    /\ dst.pc = "called"
    /\ din = <<>>
    /\ dst' = [pc |-> "returned", clustered |-> FALSE, embedded |-> <<>>, result |-> <<>>]
    /\ UNCHANGED <<din, tres, fin, fst, kin, kst, qvars>>

\* transcriber.py:266-286: the loop that fills embeddings and valid_segments
DiarizeExtract ==
    /\ dst.pc = "called"
    /\ din # <<>>
    /\ LET embedded == Embedded(din, Len(din))
       IN  dst' = [pc |-> "extracted",
                   embedded |-> embedded,
                   valid_segments |-> [r \in 1..Len(embedded) |->
                                          [start |-> din[embedded[r]].start,
                                           end |-> din[embedded[r]].end]]]
    /\ UNCHANGED <<din, tres, fin, fst, kin, kst, qvars>>

\* transcriber.py:288-290: no embeddings; seg |-> i tells which segment the
\* assignment was made for
DiarizeNoEmbeddings ==
    /\ dst.pc = "extracted"
    /\ dst.embedded = <<>>
    /\ dst' = [pc |-> "returned", clustered |-> FALSE, embedded |-> <<>>,
               result |-> [i \in 1..Len(din) |->
                              [speaker |-> 0, start |-> OrZero(din[i].start),
                               end |-> OrZero(din[i].end), seg |-> i]]]
    /\ UNCHANGED <<din, tres, fin, fst, kin, kst, qvars>>

ClusterError == "Number of labels is invalid"

\* what self._cluster(embeddings) returns for n embeddings: zeros for fewer
\* than two; otherwise the labels of the final fit with some best_n, the
\* score table deciding which
ClusterLabels(n) ==
    IF TooFew(n) THEN {[i \in 1..n |-> 0]}
    ELSE UNION {FitPredict(n, k) : k \in 1..MaxSpeakers(n)}

\* whether self._cluster(embeddings) raises for n embeddings
ClusterRaises(n) ==
    ~TooFew(n) /\ \E k \in 2..MaxSpeakers(n) : SilhouetteRaises(n, k)

\* transcriber.py:296: labels = self._cluster(embeddings); an exception
\* leaves diarize
DiarizeCluster ==
    /\ dst.pc = "extracted"
    /\ dst.embedded # <<>>
    /\ IF ClusterRaises(Len(dst.embedded))
       THEN dst' = [pc |-> "raised", error |-> ClusterError]
       ELSE \E labels \in ClusterLabels(Len(dst.embedded)) :
               dst' = [pc |-> "clustered", embedded |-> dst.embedded,
                       valid_segments |-> dst.valid_segments, labels |-> labels]
    /\ UNCHANGED <<din, tres, fin, fst, kin, kst, qvars>>

\* mutant: the label at the pointer is taken without comparing timestamps
MatchesAlways(seg, v) == TRUE

\* transcriber.py:312
Matches(seg, v) ==
    Abs(seg.start - v.start) < 50 /\ Abs(seg.end - v.end) < 50

\* the assignment loop (transcriber.py:302-322) over the first n segments:
\* label_idx and speaker_segments
RECURSIVE Assigned(_, _, _, _)
Assigned(segs, valid, labels, n) ==
    IF n = 0 THEN [label_idx |-> 0, speaker_segments |-> <<>>]
    ELSE LET prev == Assigned(segs, valid, labels, n - 1)
             seg == segs[n]
         IN  IF seg.start = NoTime \/ seg.end = NoTime THEN prev
             ELSE IF prev.label_idx < Len(valid) /\ Matches(seg, valid[prev.label_idx + 1])
             THEN [label_idx |-> prev.label_idx + 1,
                   speaker_segments |->
                      Append(prev.speaker_segments,
                             [speaker |-> labels[prev.label_idx + 1],
                              start |-> seg.start, end |-> seg.end, seg |-> n])]
             ELSE [label_idx |-> prev.label_idx,
                   speaker_segments |->
                      Append(prev.speaker_segments,
                             [speaker |-> 0, start |-> seg.start, end |-> seg.end, seg |-> n])]

\* transcriber.py:302-327
DiarizeAssign ==
    /\ dst.pc = "clustered"
    /\ dst' = [pc |-> "returned", clustered |-> TRUE, embedded |-> dst.embedded,
               labels |-> dst.labels,
               result |-> Assigned(din, dst.valid_segments, dst.labels,
                                   Len(din)).speaker_segments]
    /\ UNCHANGED <<din, tres, fin, fst, kin, kst, qvars>>

\* diarization_map.get(key, "Speaker 0") (transcriber.py:545-557): the dict
\* keeps the speaker of the last assignment with the key
MapSpeaker(diar, start, end) ==
    LET hits == {j \in 1..Len(diar) : diar[j].start = start /\ diar[j].end = end}
    IN  IF hits = {} THEN 0
        ELSE diar[CHOOSE j \in hits : \A k \in hits : k <= j].speaker

\* transcriber.py:560-564: the closest-match fallback
FallbackSpeaker(diar, start, end) ==
    LET near == {j \in 1..Len(diar) :
                    Abs(diar[j].start - start) < 10 /\ Abs(diar[j].end - end) < 10}
    IN  IF near = {} THEN 0
        ELSE diar[CHOOSE j \in near : \A k \in near : j <= k].speaker

\* _combine (transcriber.py:543-568) over the first n segments; start is
\* kept in whole seconds, which is all _format_timestamp reads of it
RECURSIVE Combined(_, _, _)
Combined(segs, diar, n) ==
    IF n = 0 THEN <<>>
    ELSE LET prev == Combined(segs, diar, n - 1)
             seg == segs[n]
             mapped == MapSpeaker(diar, seg.start, seg.end)
         IN  IF seg.start = NoTime \/ seg.end = NoTime \/ seg.text = <<>> THEN prev
             ELSE Append(prev,
                         [text |-> seg.text,
                          speaker |-> IF mapped = 0
                                      THEN FallbackSpeaker(diar, seg.start, seg.end)
                                      ELSE mapped,
                          start |-> seg.start \div 1000])

\* transcriber.py:512-518: combined = self._combine(segments, diarization),
\* handed to _format_result
Combine ==
    /\ dst.pc = "returned"
    /\ fst.pc = "idle"
    /\ fin' = Combined(din, dst.result, Len(din))
    /\ fst' = [pc |-> "called"]
    /\ UNCHANGED <<din, dst, tres, kin, kst, qvars>>

\* transcriber.py:523 and 525-530: transcribe returns the formatted result,
\* or the result that carries the text of the exception
TranscribeReturn ==
    /\ tres.pc = "none"
    /\ \/ /\ fst.pc = "done"
          /\ tres' = [pc |-> "returned", error |-> "", speakers |-> fst.speakers,
                      transcribed_text |-> fst.merged_text]
       \/ /\ dst.pc = "raised"
          /\ tres' = [pc |-> "returned", error |-> dst.error, speakers |-> <<>>,
                      transcribed_text |-> <<>>]
    /\ UNCHANGED <<din, dst, fin, fst, kin, kst, qvars>>

\* main.py:309-336: the final update of _transcribe_file; save_result
\* returns or raises
JobFinish ==
    /\ tres.pc = "returned"
    /\ \E saved \in BOOLEAN :
          tres' = [pc |-> "finished", error |-> tres.error, speakers |-> tres.speakers,
                   transcribed_text |-> tres.transcribed_text,
                   saved |-> tres.error = "" /\ saved,
                   status |-> IF tres.error = "" /\ saved THEN "completed" ELSE "error",
                   message |-> IF tres.error # "" THEN tres.error
                               ELSE IF saved THEN "Complete" ELSE SaveError]
    /\ UNCHANGED <<din, dst, fin, fst, kin, kst, qvars>>

PipelineNext ==
    \/ DiarizeNoSegments
    \/ DiarizeExtract
    \/ DiarizeNoEmbeddings
    \/ DiarizeCluster
    \/ DiarizeAssign
    \/ Combine
    \/ FormatEntries
    \/ FormatMerge
    \/ TranscribeReturn
    \/ JobFinish

PipelineStart == ApiInit /\ ClusterIdle /\ FormatIdle /\ DiarizeInit

SpecPipeline == PipelineStart /\ [][PipelineNext]_vars

\* the segments (0,2,hello), (2,4,hi), (4,6,bye), all with embeddings
C13_Scenario == din = SegmentList(3, <<>>)

\* C13: for the three segments, with segments 1 and 2 in one cluster and
\* segment 3 in another under whichever labels, the job completes (its
\* save returning) with 2 speakers and exactly two entries: "hello hi" with
\* speakerIndex 0 and "bye" with speakerIndex 1.
C13_ThreeSegments ==
    (/\ C13_Scenario
     /\ tres.pc = "finished"
     /\ tres.message # SaveError
     /\ "labels" \in DOMAIN dst =>
           dst.labels[1] = dst.labels[2] /\ dst.labels[2] # dst.labels[3])
    => /\ tres.status = "completed"
       /\ Len(tres.speakers) = 2
       /\ tres.transcribed_text =
             <<[text |-> <<1, 2>>, speakerIndex |-> 0, timestamp |-> <<0, 0, 0>>],
               [text |-> <<3>>, speakerIndex |-> 1, timestamp |-> <<0, 0, 4>>]>>

\* C18: whenever diarize returns, on the clustering path and on the
\* zero-embedding path, its result holds exactly one assignment per input
\* segment, in input order, also for segments with a missing timestamp or
\* with end <= start.
C18_OnePerSegment ==
    dst.pc = "returned" =>
       /\ Len(dst.result) = Len(din)
       /\ \A i \in 1..Len(din) :
             /\ dst.result[i].seg = i
             /\ dst.result[i].start = OrZero(din[i].start)
             /\ dst.result[i].end = OrZero(din[i].end)

\* the r with embedded[r] = i: the position of segment i in the label list
RankOf(embedded, i) == CHOOSE r \in 1..Len(embedded) : embedded[r] = i

\* every assignment of the result carries the cluster label of its own
\* segment if that segment got an embedding, and "Speaker 0" if not
OwnLabels ==
    \A j \in 1..Len(dst.result) :
       LET i == dst.result[j].seg
       IN  IF \E r \in 1..Len(dst.embedded) : dst.embedded[r] = i
           THEN dst.result[j].speaker = dst.labels[RankOf(dst.embedded, i)]
           ELSE dst.result[j].speaker = 0

NearMiss ==
    \E i \in 1..Len(din) : \E j \in (i + 1)..Len(din) :
       /\ din[i].start # NoTime /\ din[i].end # NoTime
       /\ \A r \in 1..Len(dst.embedded) : dst.embedded[r] \notin i..(j - 1)
       /\ \E r \in 1..Len(dst.embedded) : dst.embedded[r] = j
       /\ Abs(din[i].start - din[j].start) < 50
       /\ Abs(din[i].end - din[j].end) < 50

C20_NoSegmentEmbeds ==
    /\ dst.pc # "idle"
    /\ \A i \in 1..Len(din) :
          \/ din[i].start = NoTime \/ din[i].end = NoTime
          \/ din[i].end <= din[i].start
          \/ din[i].end - din[i].start < 300
          \/ ~din[i].encodes

\* what C20 says of diarize: the clusterer is not run and every segment is
\* assigned "Speaker 0"
C20_AllSpeakerZero ==
    /\ dst.pc \notin {"clustered", "raised"}
    /\ dst.pc = "returned" =>
          /\ ~dst.clustered
          /\ Len(dst.result) = Len(din)
          /\ \A i \in 1..Len(din) : dst.result[i].seg = i /\ dst.result[i].speaker = 0

\* C20 as stated, for a non-empty segment list: when no segment yields an
\* embedding, diarize assigns "Speaker 0" to every segment without running
\* the clusterer, and the job (its save returning) finishes with status
\* completed and a single speaker, not with status error.
C20_CompletedSingleSpeaker ==
    (C20_NoSegmentEmbeds /\ din # <<>>) =>
       /\ C20_AllSpeakerZero
       /\ tres.pc = "returned" => tres.error = ""
       /\ (tres.pc = "finished" /\ tres.message # SaveError) =>
             tres.status = "completed" /\ Len(tres.speakers) = 1

\* C20 amended: when no segment yields an embedding, diarize assigns
\* "Speaker 0" to every segment without running the clusterer, and the job
\* (its save returning) finishes with status completed, not error: with the
\* single speaker "Speaker 0" if some segment has both timestamps and a
\* non-empty text, and with no speaker and no transcript entry otherwise.
C20_CompletedAtMostOneSpeaker ==
    C20_NoSegmentEmbeds =>
       /\ C20_AllSpeakerZero
       /\ tres.pc = "returned" => tres.error = ""
       /\ (tres.pc = "finished" /\ tres.message # SaveError) =>
             /\ tres.status = "completed"
             /\ IF \E i \in 1..Len(din) :
                      din[i].start # NoTime /\ din[i].end # NoTime /\ din[i].text # <<>>
                THEN tres.speakers = <<0>> /\ Len(tres.transcribed_text) = 1
                ELSE tres.speakers = <<>> /\ tres.transcribed_text = <<>>

\* C20 witness: a job of two segments, one too short and one whose
\* embedding call raised, has finished completed with the one speaker.
C20_Witness ==
    /\ C20_NoSegmentEmbeds
    /\ Len(din) = 2
    /\ din[1].end - din[1].start = 200
    /\ din[2].end - din[2].start = 2000 /\ ~din[2].encodes
    /\ tres.pc = "finished"
    /\ tres.status = "completed"
    /\ tres.speakers = <<0>>
    /\ tres.transcribed_text[1].text = <<1, 2>>

====
